---- MODULE Spec2Model ----
(***************************************************************************)
(* Model of the tire-print identifier: the server-side prediction route    *)
(* (computeGrayscale, sobelEdges, featureSignature, POST) and the upload   *)
(* page (callApiPredict, handleFile).                                      *)
(*                                                                         *)
(* Numbers.  The program computes in IEEE doubles over a Float32Array.     *)
(* The model uses fixed point: a real value v is the integer 1000*v        *)
(* ("milli"), a product of two such values is in units of 1e-6 ("micro").  *)
(* The epsilon 1e-6 of featureSignature is exactly one micro unit.  Every  *)
(* division rounds to nearest.  NaN is carried as an explicit flag.        *)
(***************************************************************************)
EXTENDS Integers, Sequences, FiniteSets, TLC

VARIABLES
  pc,          \* position inside the synchronous part of POST (lines 100-108)
  rgba,        \* raw.data: interleaved RGBA bytes
  width,       \* width handed to sobelEdges
  height,      \* raw.info.height
  gray,        \* result of computeGrayscale
  edges,       \* result of sobelEdges
  features,    \* result of featureSignature
  idx,         \* catalog index (line 105)
  confidence,  \* confidence (lines 107-108)
  VEHICLES,    \* the module-level catalog array (lines 12-18)
  reqs,        \* the POST invocations in progress, one per request slot
  calls,       \* the handleFile invocations of the page
  file,        \* page state: useState file
  previewUrl,  \* page state: useState previewUrl
  edgeUrl,     \* page state: useState edgeUrl
  vehicle,     \* page state: useState vehicle
  pconfidence  \* page state: useState confidence

pipeVars == <<pc, rgba, width, height, gray, edges, features, idx, confidence>>
postVars == <<reqs>>
pageVars == <<calls, file, previewUrl, edgeUrl, vehicle, pconfidence>>
vars == <<pc, rgba, width, height, gray, edges, features, idx, confidence,
          VEHICLES, reqs, calls, file, previewUrl, edgeUrl, vehicle, pconfidence>>

----------------------------------------------------------------------------
(* Bounds *)

MaxW == 4
MaxH == 4
ExpTerms == 24
NReq == 2
MaxCalls == 2

----------------------------------------------------------------------------
(* Arithmetic helpers *)

Abs(a) == IF a < 0 THEN -a ELSE a

\* a / b rounded to the nearest integer (b > 0), the fixed-point division
RoundDiv(a, b) ==
  IF a >= 0 THEN (2 * a + b) \div (2 * b) ELSE -((2 * (-a) + b) \div (2 * b))

\* JavaScript's % : the remainder takes the sign of the dividend
JsRem(a, b) == IF a >= 0 THEN a % b ELSE -((-a) % b)

RECURSIVE SqrtSearch(_, _, _)
SqrtSearch(n, lo, hi) ==
  IF lo >= hi THEN lo
  ELSE LET mid == (lo + hi + 1) \div 2
       IN IF mid * mid <= n THEN SqrtSearch(n, mid, hi)
                            ELSE SqrtSearch(n, lo, mid - 1)

\* Math.sqrt on a non-negative integer, rounded to the nearest integer
Sqrt(n) ==
  LET r == SqrtSearch(n, 0, 40000)
  IN IF n - r * r > r THEN r + 1 ELSE r

RECURSIVE SumSeq(_, _)
SumSeq(s, i) == IF i = 0 THEN 0 ELSE s[i] + SumSeq(s, i - 1)

\* 0-based indexing of a typed array; a read out of range gives undefined
InRange(a, i) == i >= 0 /\ i < Len(a)
At(a, i) == a[i + 1]

\* A JavaScript number: either NaN or a fixed-point value
Num(v) == [nan |-> FALSE, v |-> v]
NaN == [nan |-> TRUE, v |-> 0]

\* a nullable value of the page state
Null == [null |-> TRUE]
Some(x) == [null |-> FALSE, val |-> x]

----------------------------------------------------------------------------
(* The vehicle catalog *)

Catalog ==
  << [make |-> "Toyota", model |-> "Camry",    class |-> "Sedan",        tire |-> "215/55R17"],
     [make |-> "Honda",  model |-> "Civic",    class |-> "Compact",      tire |-> "215/50R17"],
     [make |-> "Ford",   model |-> "F-150",    class |-> "Pickup",       tire |-> "275/65R18"],
     [make |-> "BMW",    model |-> "3 Series", class |-> "Sports Sedan", tire |-> "225/45R18"],
     [make |-> "Audi",   model |-> "Q5",       class |-> "SUV",          tire |-> "235/55R19"] >>

----------------------------------------------------------------------------
(* computeGrayscale *)

GraySampleAlpha(data, g) ==
  LET i  == 4 * g
      r  == At(data, i)
      b  == At(data, i + 1)
      gb == At(data, i + 3)
  IN RoundDiv(299 * r + 587 * b + 114 * gb, 255)

\* one sample: (0.299*r + 0.587*b + 0.114*gb) / 255, in milli
GraySample(data, g) ==
  LET i  == 4 * g
      r  == At(data, i)
      b  == At(data, i + 1)
      gb == At(data, i + 2)
  IN RoundDiv(299 * r + 587 * b + 114 * gb, 255)

computeGrayscale(data) ==
  [g1 \in 1..(Len(data) \div 4) |-> GraySample(data, g1 - 1)]

----------------------------------------------------------------------------
(* sobelEdges *)

gxFlat == <<-1, 0, 1, -1, 0, 1, -1, 0, 1>>
gx == <<-1, 0, 1, -2, 0, 2, -1, 0, 1>>
gy == <<-1, -2, -1, 0, 0, 0, 1, 2, 1>>

\* index read at kernel position k (k counts ky, then kx, from 0)
KernelIdx(k, w, x, y) == (y + (k \div 3) - 1) * w + (x + (k % 3) - 1)

RECURSIVE KernelSum(_, _, _, _, _, _)
KernelSum(kern, g, w, x, y, k) ==
  IF k = 9 THEN 0
  ELSE kern[k + 1] * At(g, KernelIdx(k, w, x, y)) + KernelSum(kern, g, w, x, y, k + 1)

\* a read outside the array is undefined, and the sums become NaN
KernelNaN(g, w, x, y) == \E k \in 0..8 : ~InRange(g, KernelIdx(k, w, x, y))

\* the conversion of a store into a Uint8ClampedArray: clamp to 0..255 and
\* round to nearest, ties to even; NaN is stored as 0.  m is in milli.
ToUint8Clamped(m) ==
  IF m.nan THEN 0
  ELSE IF m.v <= 0 THEN 0
  ELSE IF m.v >= 255000 THEN 255
  ELSE LET q == m.v \div 1000
           r == m.v % 1000
       IN IF r > 500 THEN q + 1
          ELSE IF r < 500 THEN q
          ELSE IF q % 2 = 0 THEN q ELSE q + 1

\* Math.min(255, Math.sqrt(sx*sx + sy*sy) * 255)
Magnitude(g, w, x, y) ==
  IF KernelNaN(g, w, x, y) THEN NaN
  ELSE LET sx == KernelSum(gx, g, w, x, y, 0)
           sy == KernelSum(gy, g, w, x, y, 0)
           m  == Sqrt(sx * sx + sy * sy) * 255
       IN Num(IF m > 255000 THEN 255000 ELSE m)

\* the values of the loop variables x and y
LoopXsToEdge(w) == 1..(w - 1)
LoopXs(w) == 1..(w - 2)
LoopYs(h) == 1..(h - 2)

\* out[y * width + x] = mag, over the two loops; every other cell keeps the 0
\* of new Uint8ClampedArray(width * height)
sobelEdges(g, w, h) ==
  [i1 \in 1..(w * h) |->
     LET hits == {p \in LoopXs(w) \X LoopYs(h) : p[2] * w + p[1] = i1 - 1}
     IN IF hits = {} THEN 0
        ELSE LET p == CHOOSE q \in hits : TRUE
             IN ToUint8Clamped(Magnitude(g, w, p[1], p[2]))]

----------------------------------------------------------------------------
(* featureSignature *)

RECURSIVE SumSq(_, _, _)
SumSq(g, mean, i) ==
  IF i = 0 THEN 0 ELSE (g[i] - mean) * (g[i] - mean) + SumSq(g, mean, i - 1)

\* z*z*z for z = (gray[i] - mean) / (std + 1e-6), in milli
ZCubed(x, mean, std) ==
  LET z  == RoundDiv((x - mean) * 1000000, std * 1000 + 1)
      z2 == RoundDiv(z * z, 1000)
  IN RoundDiv(z2 * z, 1000)

RECURSIVE SumZ3(_, _, _, _)
SumZ3(g, mean, std, i) ==
  IF i = 0 THEN 0 ELSE ZCubed(g[i], mean, std) + SumZ3(g, mean, std, i - 1)

\* lines 59-61, n > 0
MeanSkipLast(g) == RoundDiv(SumSeq(g, Len(g) - 1), Len(g))
Mean(g) == RoundDiv(SumSeq(g, Len(g)), Len(g))

\* lines 62-67, n > 0; in micro
Variance(g, mean) == RoundDiv(SumSq(g, mean, Len(g)), Len(g))

\* lines 69-74, n > 0
Skew(g, mean, std) == RoundDiv(SumZ3(g, mean, std, Len(g)), Len(g))

\* n = 0: mean = 0/0 is NaN, and so are variance, std and skew; nothing throws
featureSignature(g) ==
  IF Len(g) = 0
  THEN [threw |-> FALSE, mean |-> NaN, std |-> NaN, skew |-> NaN]
  ELSE LET mean == Mean(g)
           std  == Sqrt(Variance(g, mean))
       IN [threw |-> FALSE, mean |-> Num(mean), std |-> Num(std),
           skew |-> Num(Skew(g, mean, std))]

----------------------------------------------------------------------------
(* The deterministic mapping of POST, lines 104-108 *)

CatalogIndexNoAbs(f, K) ==
  IF f.mean.nan \/ f.std.nan \/ f.skew.nan THEN NaN
  ELSE LET s == f.mean.v * 7 + f.std.v * 11 + f.skew.v * 13
       IN Num(JsRem(s \div 1000, K))

\* Math.abs(Math.floor(mean*7 + std*11 + skew*13)) % VEHICLES.length
CatalogIndex(f, K) ==
  IF f.mean.nan \/ f.std.nan \/ f.skew.nan THEN NaN
  ELSE LET s == f.mean.v * 7 + f.std.v * 11 + f.skew.v * 13
       IN Num(JsRem(Abs(s \div 1000), K))

RECURSIVE ExpSeries(_, _, _, _)
ExpSeries(z, k, term, acc) ==
  IF k > ExpTerms THEN acc
  ELSE LET t == RoundDiv(term * z, k * 1000)
       IN ExpSeries(z, k + 1, t, acc + t)

\* Math.exp, in milli, by its power series
Exp(z) ==
  IF z >= 0 THEN ExpSeries(z, 1, 1000, 1000)
  ELSE RoundDiv(1000000, ExpSeries(-z, 1, 1000, 1000))

\* 1 / (1 + Math.exp(-std * 2.0))
Sigmoid2(std) == RoundDiv(1000000, 1000 + Exp(-(std * 2)))

ClampLowOnly(c) == IF c < 200 THEN 200 ELSE c

\* Math.max(0.2, Math.min(0.98, confidence))
Clamp(c) ==
  LET lo == IF c > 980 THEN 980 ELSE c
  IN IF lo < 200 THEN 200 ELSE lo

Confidence(std) == IF std.nan THEN NaN ELSE Num(Clamp(Sigmoid2(std.v)))

----------------------------------------------------------------------------
(* Inputs: decoded images and feature vectors *)

\* RGBA pixels: opaque black, opaque white, transparent red, a half-transparent mix
Pixels == { <<0, 0, 0, 255>>, <<255, 255, 255, 255>>, <<255, 0, 0, 0>>, <<10, 200, 90, 128>> }

ToBytes(pix) == [i \in 1..(4 * Len(pix)) |-> pix[((i - 1) \div 4) + 1][((i - 1) % 4) + 1]]

Uniform(w, h, p) == [i \in 1..(w * h) |-> p]
Impulse(w, h, bg, fg, pos) == [i \in 1..(w * h) |-> IF i = pos THEN fg ELSE bg]
StepV(w, h, p1, p2, c) == [i \in 1..(w * h) |-> IF (i - 1) % w < c THEN p1 ELSE p2]
StepH(w, h, p1, p2, r) == [i \in 1..(w * h) |-> IF (i - 1) \div w < r THEN p1 ELSE p2]

\* the w-by-h images of the model: flat, one odd pixel, a vertical or a horizontal step
Images(w, h) ==
  { ToBytes(Uniform(w, h, p)) : p \in Pixels }
  \cup { ToBytes(Impulse(w, h, q[1], q[2], pos)) : q \in Pixels \X Pixels, pos \in 1..(w * h) }
  \cup { ToBytes(StepV(w, h, q[1], q[2], c)) : q \in Pixels \X Pixels, c \in 1..(w - 1) }
  \cup { ToBytes(StepH(w, h, q[1], q[2], r)) : q \in Pixels \X Pixels, r \in 1..(h - 1) }

Means == {0, 500, 1000}
Stds  == {0, 100, 500, 1000, 3000}
Skews == {-5000, -2000, -300, 0, 300, 2000, 5000}

NoFeatures == [threw |-> FALSE, mean |-> NaN, std |-> NaN, skew |-> NaN]

\* what a request carries.  kind: "badBody" (req.formData() rejects),
\* "noImage" (no Blob under "image"), "corrupt" (metadata() rejects),
\* "truncated" (metadata() resolves, toBuffer() rejects), "image".
\* w, h, data: what the decoder yields for the upload.
Upload(kind, w, h, data) == [kind |-> kind, w |-> w, h |-> h, data |-> data]

NoUpload == Upload("none", 0, 0, <<>>)

IdleReq ==
  [pc |-> "idle", input |-> NoUpload, responses |-> <<>>, decodes |-> 0,
   computed |-> FALSE, unhandled |-> FALSE]

\* the parts of the state that belong to the request handler and to the page
RestIdle ==
  /\ reqs = [r \in 1..NReq |-> IdleReq]
  /\ calls = <<>>
  /\ file = 0
  /\ previewUrl = 0
  /\ edgeUrl = Null
  /\ vehicle = Null
  /\ pconfidence = Null

\* intensity buffers for a direct call of featureSignature
GrayLevels == {0, 299, 512, 1000}
GrayBuffers ==
  UNION { { [i \in 1..n |-> IF i = q[3] THEN q[2] ELSE q[1]] :
              q \in GrayLevels \X GrayLevels \X (1..n) } : n \in 1..(MaxW * MaxH) }
  \cup { <<>> }

\* POST at line 100: raw.data, width and raw.info.height are in hand; the
\* decoder returns at least one pixel
InitImage ==
  /\ pc = "decoded"
  /\ width \in 1..MaxW
  /\ height \in 1..MaxH
  /\ rgba \in Images(width, height)
  /\ gray = <<>>
  /\ edges = <<>>
  /\ features = NoFeatures
  /\ idx = NaN
  /\ confidence = NaN

\* computeGrayscale called on its own, on a buffer of any size, 0 included
InitCallGrayscale ==
  /\ pc = "computeGrayscale:call"
  /\ width \in 0..MaxW
  /\ height \in 0..MaxH
  /\ rgba \in Images(width, height)
  /\ gray = <<>>
  /\ edges = <<>>
  /\ features = NoFeatures
  /\ idx = NaN
  /\ confidence = NaN

\* featureSignature called on its own, on a buffer of any length, 0 included
InitCallFeature ==
  /\ pc = "featureSignature:call"
  /\ width = 0
  /\ height = 0
  /\ rgba = <<>>
  /\ gray \in GrayBuffers
  /\ edges = <<>>
  /\ features = NoFeatures
  /\ idx = NaN
  /\ confidence = NaN

\* POST at line 104, on a feature vector of any shape
InitFeatureVector ==
  /\ pc = "features"
  /\ width = 0
  /\ height = 0
  /\ rgba = <<>>
  /\ gray = <<>>
  /\ edges = <<>>
  /\ \E m \in Means, s \in Stds, k \in Skews :
       features = [threw |-> FALSE, mean |-> Num(m), std |-> Num(s), skew |-> Num(k)]
  /\ idx = NaN
  /\ confidence = NaN

Init ==
  /\ VEHICLES = Catalog
  /\ RestIdle
  /\ (InitImage \/ InitCallGrayscale \/ InitCallFeature \/ InitFeatureVector)

\* line 100, or the call of computeGrayscale on its own
GrayscaleStep ==
  /\ pc \in {"decoded", "computeGrayscale:call"}
  /\ gray' = computeGrayscale(rgba)
  /\ pc' = IF pc = "decoded" THEN "gray" ELSE "computeGrayscale:return"
  /\ UNCHANGED <<rgba, width, height, edges, features, idx, confidence>>
  /\ UNCHANGED <<VEHICLES, postVars, pageVars>>

\* line 101
SobelStep ==
  /\ pc = "gray"
  /\ edges' = sobelEdges(gray, width, height)
  /\ pc' = "edges"
  /\ UNCHANGED <<rgba, width, height, gray, features, idx, confidence>>
  /\ UNCHANGED <<VEHICLES, postVars, pageVars>>

\* line 102, or the call of featureSignature on its own
FeatureStep ==
  /\ pc \in {"edges", "featureSignature:call"}
  /\ features' = featureSignature(gray)
  /\ pc' = IF pc = "edges" THEN "features" ELSE "featureSignature:return"
  /\ UNCHANGED <<rgba, width, height, gray, edges, idx, confidence>>
  /\ UNCHANGED <<VEHICLES, postVars, pageVars>>

\* lines 105-108
ClassifyStep ==
  /\ pc = "features"
  /\ idx' = CatalogIndex(features, Len(VEHICLES))
  /\ confidence' = Confidence(features.std)
  /\ pc' = "classified"
  /\ UNCHANGED <<rgba, width, height, gray, edges, features>>
  /\ UNCHANGED <<VEHICLES, postVars, pageVars>>

Next == GrayscaleStep \/ SobelStep \/ FeatureStep \/ ClassifyStep

Spec == Init /\ [][Next]_vars

TypeOK ==
  /\ pc \in {"decoded", "gray", "edges", "features", "classified",
            "computeGrayscale:call", "computeGrayscale:return",
            "featureSignature:call", "featureSignature:return"}
  /\ \A i \in 1..Len(gray) : gray[i] \in 0..1000
  /\ \A i \in 1..Len(edges) : edges[i] \in 0..255

----------------------------------------------------------------------------
(* Properties of the pipeline functions *)

CatalogRecords == {Catalog[i] : i \in 1..Len(Catalog)}

\* C1: whatever the feature vector, also when mean*7 + std*11 + skew*13 is
\* negative, the index computed at line 105 is in 0..K-1 and VEHICLES[index]
\* is one of the K catalog records.
C1_IndexInBounds ==
  pc = "classified" =>
    /\ ~idx.nan
    /\ idx.v >= 0
    /\ idx.v < Len(VEHICLES)
    /\ VEHICLES[idx.v + 1] \in CatalogRecords

\* a classification whose weighted sum is negative
C1_Witness ==
  /\ pc = "classified"
  /\ features.mean.v * 7 + features.std.v * 11 + features.skew.v * 13 < 0
  /\ idx.v > 0

\* C2: featureSignature on a zero-length buffer fails with InvalidInput and
\* returns no feature vector holding NaN.
C2_EmptyInputFails ==
  (pc = "featureSignature:return" /\ Len(gray) = 0) =>
    /\ features.threw
    /\ ~features.mean.nan
    /\ ~features.std.nan
    /\ ~features.skew.nan

\* C3: for every std >= 0 the confidence of lines 107-108 is in [0.2, 0.98].
C3_ConfidenceInBounds ==
  (pc = "classified" /\ ~features.std.nan /\ features.std.v >= 0) =>
    /\ ~confidence.nan
    /\ confidence.v >= 200
    /\ confidence.v <= 980

\* a classification in which the upper clamp acts
C3_Witness ==
  /\ pc = "classified"
  /\ features.std.v >= 0
  /\ Sigmoid2(features.std.v) > 980
  /\ confidence.v = 980

EdgesDone == pc \in {"edges", "features", "classified"}

IsBorder(x, y, w, h) == x = 0 \/ x = w - 1 \/ y = 0 \/ y = h - 1

\* C4: for width, height >= 3 the edge buffer has width*height cells and
\* every cell of row 0, row height-1, column 0 and column width-1 is 0.
C4_BorderZero ==
  (EdgesDone /\ width >= 3 /\ height >= 3) =>
    /\ Len(edges) = width * height
    /\ \A x \in 0..(width - 1), y \in 0..(height - 1) :
         IsBorder(x, y, width, height) => At(edges, y * width + x) = 0

\* an edge buffer with a non-zero interior cell next to its zero border
C4_Witness ==
  /\ pc = "edges"
  /\ width >= 3
  /\ height >= 4
  /\ \E x \in 1..(width - 2), y \in 1..(height - 2) : At(edges, y * width + x) > 0

\* C6: on a non-empty buffer whose samples all equal c, featureSignature
\* returns mean = c, std = 0 and skew = 0.
C6_UniformImage ==
  (/\ pc \in {"features", "classified", "featureSignature:return"}
   /\ Len(gray) > 0
   /\ \A i \in 1..Len(gray) : gray[i] = gray[1]) =>
    /\ ~features.threw
    /\ features.mean = Num(gray[1])
    /\ features.std = Num(0)
    /\ features.skew = Num(0)

\* featureSignature has returned on a flat buffer of several non-zero samples
C6_Witness ==
  /\ pc = "featureSignature:return"
  /\ Len(gray) > 1
  /\ gray[1] = 512
  /\ \A i \in 1..Len(gray) : gray[i] = gray[1]
  /\ features.std = Num(0)

\* C7: computeGrayscale on 4*W*H bytes (0 included) returns W*H samples, never
\* fails, sample g is (0.299*d[4g] + 0.587*d[4g+1] + 0.114*d[4g+2]) / 255, in
\* [0,1] and whatever d[4g+3] is, and the input buffer is left as it was.
C7_GrayscaleContract ==
  [][(pc \in {"decoded", "computeGrayscale:call"}) =>
       /\ pc' \in {"gray", "computeGrayscale:return"}
       /\ rgba' = rgba
       /\ Len(gray') = width * height
       /\ \A g \in 0..(width * height - 1) :
            /\ 255 * At(gray', g) - 127 <=
                 299 * At(rgba, 4 * g) + 587 * At(rgba, 4 * g + 1) + 114 * At(rgba, 4 * g + 2)
            /\ 299 * At(rgba, 4 * g) + 587 * At(rgba, 4 * g + 1) + 114 * At(rgba, 4 * g + 2)
                 <= 255 * At(gray', g) + 127
            /\ At(gray', g) >= 0
            /\ At(gray', g) <= 1000]_vars

\* computeGrayscale has returned on a buffer holding a pixel whose alpha
\* differs from its third channel
C7_Witness ==
  /\ pc = "computeGrayscale:return"
  /\ Len(gray) = width * height
  /\ \E g \in 0..(Len(gray) - 1) :
       /\ At(rgba, 4 * g + 3) = 128
       /\ At(rgba, 4 * g + 2) = 90
       /\ At(gray, g) = 512

\* the sample at (x + dx, y + dy)
Px(x, y, dx, dy) == At(gray, (y + dy) * width + (x + dx))

\* the Gx and Gy sums at (x, y), written out
SxAt(x, y) ==
  (Px(x, y, 1, -1) + 2 * Px(x, y, 1, 0) + Px(x, y, 1, 1))
  - (Px(x, y, -1, -1) + 2 * Px(x, y, -1, 0) + Px(x, y, -1, 1))
SyAt(x, y) ==
  (Px(x, y, -1, 1) + 2 * Px(x, y, 0, 1) + Px(x, y, 1, 1))
  - (Px(x, y, -1, -1) + 2 * Px(x, y, 0, -1) + Px(x, y, 1, -1))

\* min(255, 255 * sqrt(sx^2 + sy^2)), in milli
MagAt(x, y) ==
  LET m == 255 * Sqrt(SxAt(x, y) * SxAt(x, y) + SyAt(x, y) * SyAt(x, y))
  IN IF m > 255000 THEN 255000 ELSE m

\* C9: for width, height >= 3 each interior cell of the edge buffer is the
\* 8-bit integer nearest to min(255, 255*sqrt(sx^2 + sy^2)); every cell is in
\* 0..255, and a flat buffer gives 0 at every interior cell.
C9_SobelMagnitude ==
  (EdgesDone /\ width >= 3 /\ height >= 3) =>
    /\ \A i \in 1..Len(edges) : edges[i] \in 0..255
    /\ \A x \in 1..(width - 2), y \in 1..(height - 2) :
         /\ 1000 * At(edges, y * width + x) - MagAt(x, y) <= 500
         /\ MagAt(x, y) - 1000 * At(edges, y * width + x) <= 500
         /\ (\A i \in 1..Len(gray) : gray[i] = gray[1]) => At(edges, y * width + x) = 0

\* an interior cell strictly between 0 and 255
C9_Witness ==
  /\ pc = "edges"
  /\ width >= 3
  /\ height >= 3
  /\ \E x \in 1..(width - 2), y \in 1..(height - 2) :
       /\ At(edges, y * width + x) > 0
       /\ At(edges, y * width + x) < 255

----------------------------------------------------------------------------
(* POST: the request handler, one invocation per request slot, interleaved  *)
(* at its awaits                                                            *)

White == <<255, 255, 255, 255>>
Black == <<0, 0, 0, 255>>
Mixed == <<10, 200, 90, 128>>

Uploads ==
  { Upload("badBody", 0, 0, <<>>),
    Upload("noImage", 0, 0, <<>>),
    Upload("corrupt", 0, 0, <<>>),
    Upload("truncated", 2, 2, <<>>),
    Upload("image", 1, 1, ToBytes(Uniform(1, 1, White))),
    Upload("image", 3, 3, ToBytes(Impulse(3, 3, White, Black, 5))),
    Upload("image", 2, 2, ToBytes(StepV(2, 2, Black, Mixed, 1))) }

\* Math.min(900, meta.width || 512)
TargetWidth(metaWidth) ==
  LET m == IF metaWidth = 0 THEN 512 ELSE metaWidth
  IN IF m > 900 THEN 900 ELSE m

\* Number(x.toFixed(6)): six decimals, so the result is in micro
ToFixed6(x) == IF x.nan THEN NaN ELSE Num(x.v * 1000)

\* NextResponse.json({ error }, { status })
ErrorResponse(status, msg) ==
  [status |-> status, error |-> Some(msg), vehicle |-> Null, confidence |-> Null,
   features |-> Null]

\* lines 100-119: the synchronous part, and NextResponse.json of its result.
\* A property whose value is undefined is left out of the JSON.
Predict(data, w, h, V) ==
  LET g == computeGrayscale(data)
      f == featureSignature(g)
      i == CatalogIndex(f, Len(V))
      c == Confidence(f.std)
  IN [status |-> 200, error |-> Null,
      vehicle |-> IF i.nan THEN Null ELSE Some(V[i.v + 1]),
      confidence |-> Some(c),
      features |-> Some([mean |-> ToFixed6(f.mean), std |-> ToFixed6(f.std),
                         skew |-> ToFixed6(f.skew), width |-> w, height |-> h])]

\* a return of a response ends the invocation
Return(q, resp) == [q EXCEPT !.pc = "done", !.responses = Append(@, resp)]

Rethrown(q, msg) == [q EXCEPT !.pc = "done", !.unhandled = TRUE]

\* lines 120-122: whatever is thrown inside the try becomes a 500 response
Caught(q, msg) == Return(q, ErrorResponse(500, msg))

CatalogRotated(V) == Tail(V) \o <<Head(V)>>

\* what POST leaves in VEHICLES: lines 105-106 only read it
CatalogAfterPOST(V) == V

InitPost ==
  /\ VEHICLES = Catalog
  /\ reqs = [r \in 1..NReq |-> IdleReq]
  /\ pc = "off"
  /\ width = 0
  /\ height = 0
  /\ rgba = <<>>
  /\ gray = <<>>
  /\ edges = <<>>
  /\ features = NoFeatures
  /\ idx = NaN
  /\ confidence = NaN
  /\ calls = <<>>
  /\ file = 0
  /\ previewUrl = 0
  /\ edgeUrl = Null
  /\ vehicle = Null
  /\ pconfidence = Null

\* line 78-80: POST is called and awaits req.formData()
Receive(r, u) ==
  /\ reqs[r].pc = "idle"
  /\ reqs' = [reqs EXCEPT ![r] = [@ EXCEPT !.pc = "formData", !.input = u]]
  /\ UNCHANGED <<pipeVars, VEHICLES, pageVars>>

\* lines 80-86: formData() settles; the check of the image field
FormData(r) ==
  /\ reqs[r].pc = "formData"
  /\ reqs' = [reqs EXCEPT ![r] =
       IF @.input.kind = "badBody" THEN Caught(@, "Failed to parse body")
       ELSE IF @.input.kind = "noImage"
            THEN Return(@, ErrorResponse(400, "No image provided"))
            ELSE [@ EXCEPT !.pc = "arrayBuffer"]]
  /\ UNCHANGED <<pipeVars, VEHICLES, pageVars>>

\* lines 86-91: arrayBuffer() settles; the import of sharp begins
ArrayBuffer(r) ==
  /\ reqs[r].pc = "arrayBuffer"
  /\ reqs' = [reqs EXCEPT ![r] = [@ EXCEPT !.pc = "import"]]
  /\ UNCHANGED <<pipeVars, VEHICLES, pageVars>>

\* lines 91-93: the import settles; sharp(buffer) and metadata() are called
ImportSharp(r) ==
  /\ reqs[r].pc = "import"
  /\ reqs' = [reqs EXCEPT ![r] = [@ EXCEPT !.pc = "metadata", !.decodes = @ + 1]]
  /\ UNCHANGED <<pipeVars, VEHICLES, pageVars>>

\* lines 93-96: metadata() settles; resize and toBuffer() are called
Metadata(r) ==
  /\ reqs[r].pc = "metadata"
  /\ reqs' = [reqs EXCEPT ![r] =
       IF @.input.kind = "corrupt"
       THEN Caught(@, "Input buffer contains unsupported image format")
       ELSE [@ EXCEPT !.pc = "toBuffer"]]
  /\ UNCHANGED <<pipeVars, VEHICLES, pageVars>>

\* lines 96-119: toBuffer() settles; the synchronous part and the response.
\* The uploads of the model are narrower than 900, so the resize keeps them.
ToBuffer(r) ==
  /\ reqs[r].pc = "toBuffer"
  /\ reqs' = [reqs EXCEPT ![r] =
       IF @.input.kind = "truncated" THEN Caught(@, "Input file is truncated")
       ELSE Return([@ EXCEPT !.computed = TRUE],
                   Predict(@.input.data, TargetWidth(@.input.w), @.input.h, VEHICLES))]
  /\ VEHICLES' = IF reqs[r].input.kind = "truncated" THEN VEHICLES
                 ELSE CatalogAfterPOST(VEHICLES)
  /\ UNCHANGED <<pipeVars, pageVars>>

NextPost ==
  \E r \in 1..NReq :
    \/ \E u \in Uploads : Receive(r, u)
    \/ FormData(r)
    \/ ArrayBuffer(r)
    \/ ImportSharp(r)
    \/ Metadata(r)
    \/ ToBuffer(r)

SpecPost == InitPost /\ [][NextPost]_vars

----------------------------------------------------------------------------
(* Properties of POST *)

Done(r) == reqs[r].pc = "done"

HasPrediction(resp) ==
  /\ resp.status = 200
  /\ resp.error = Null
  /\ resp.vehicle # Null
  /\ resp.confidence # Null
  /\ resp.features # Null

IsError(resp, status) ==
  /\ resp.status = status
  /\ resp.error # Null
  /\ resp.vehicle = Null
  /\ resp.confidence = Null

\* the state of one invocation agrees with C8
RequestOK(q) ==
  /\ ~q.unhandled
  /\ Len(q.responses) = (IF q.pc = "done" THEN 1 ELSE 0)
  /\ q.decodes <= 1
  /\ q.pc = "done" =>
       /\ q.input.kind = "noImage" =>
            (IsError(q.responses[1], 400) /\ q.decodes = 0 /\ ~q.computed)
       /\ q.input.kind \in {"badBody", "corrupt", "truncated"} =>
            (IsError(q.responses[1], 500) /\ ~q.computed)
       /\ q.input.kind = "image" => (HasPrediction(q.responses[1]) /\ q.computed)

\* C8: every request that has ended has exactly one response, and none ends
\* in an unhandled exception: 400 and no decoding or computation without an image Blob, an
\* error response (500) without vehicle or confidence and without a second
\* attempt when a step throws, and vehicle, confidence and features only
\* when every step succeeds.
C8_OneResponse == \A r \in 1..NReq : RequestOK(reqs[r])

\* an invocation whose decoding threw has ended in its 500 response
C8_Witness ==
  \E r \in 1..NReq :
    /\ Done(r)
    /\ reqs[r].input.kind = "truncated"
    /\ reqs[r].decodes = 1
    /\ reqs[r].responses = <<ErrorResponse(500, "Input file is truncated")>>

----------------------------------------------------------------------------
(* The upload page: handleFile invocations, interleaved at their awaits     *)

\* the files the user can pick.  1 and 2: images the server classifies;
\* 3: an image the browser shows and the server's decoder rejects;
\* 4: a file the browser cannot load, whose img.onload never fires.
Files == 1..4

FileUpload(f) ==
  IF f = 1 THEN Upload("image", 3, 3, ToBytes(Impulse(3, 3, White, Black, 5)))
  ELSE IF f = 2 THEN Upload("image", 2, 2, ToBytes(StepV(2, 2, Black, Mixed, 1)))
  ELSE IF f = 3 THEN Upload("corrupt", 3, 3, ToBytes(Uniform(3, 3, Mixed)))
  ELSE Upload("noPicture", 0, 0, <<>>)

Loads(f) == FileUpload(f).kind # "noPicture"

\* the response of POST to an upload of the page (every upload has its Blob)
PostResponse(u, V) ==
  IF u.kind = "image" THEN Predict(u.data, TargetWidth(u.w), u.h, V)
  ELSE ErrorResponse(500, "Input buffer contains unsupported image format")

\* lines 198-220: the edge preview drawn on the canvas
EdgePreview(f) ==
  LET u == FileUpload(f)
      w == IF u.w > 900 THEN 900 ELSE u.w
  IN sobelEdges(computeGrayscale(u.data), w, u.h)

UnknownVehicle == [make |-> "Unknown", model |-> "Unknown", class |-> "Unknown", tire |-> "N/A"]

\* lines 222-230: what handleFile displays for a settled fetch.  ok: the
\* fetch resolved (FALSE: it rejected); resp: the response it resolved with.
Displayed(ok, resp) ==
  IF ok /\ resp.status = 200
  THEN [vehicle |-> resp.vehicle, confidence |-> resp.confidence]
  ELSE [vehicle |-> Some(UnknownVehicle), confidence |-> Some(Num(200))]

InitPage ==
  /\ VEHICLES = Catalog
  /\ reqs = [r \in 1..NReq |-> IdleReq]
  /\ pc = "off"
  /\ width = 0
  /\ height = 0
  /\ rgba = <<>>
  /\ gray = <<>>
  /\ edges = <<>>
  /\ features = NoFeatures
  /\ idx = NaN
  /\ confidence = NaN
  /\ calls = <<>>
  /\ file = 0
  /\ previewUrl = 0
  /\ edgeUrl = Null
  /\ vehicle = Null
  /\ pconfidence = Null

\* lines 189-196: handleFile(f) up to its await of img.onload
HandleFile(f) ==
  /\ Len(calls) < MaxCalls
  /\ calls' = Append(calls, [f |-> f, pc |-> "onload", shown |-> Null])
  /\ file' = f
  /\ previewUrl' = f
  /\ UNCHANGED <<edgeUrl, vehicle, pconfidence>>
  /\ UNCHANGED <<pipeVars, VEHICLES, postVars>>

\* lines 196-223: img.onload fires; the edge preview; the fetch is sent
ImgLoad(c) ==
  /\ calls[c].pc = "onload"
  /\ Loads(calls[c].f)
  /\ edgeUrl' = Some(EdgePreview(calls[c].f))
  /\ calls' = [calls EXCEPT ![c].pc = "fetch"]
  /\ UNCHANGED <<file, previewUrl, vehicle, pconfidence>>
  /\ UNCHANGED <<pipeVars, VEHICLES, postVars>>

\* lines 172-230: the fetch of callApiPredict settles, and handleFile ends
FetchSettle(c, ok) ==
  /\ calls[c].pc = "fetch"
  /\ LET d == Displayed(ok, PostResponse(FileUpload(calls[c].f), VEHICLES))
     IN /\ vehicle' = d.vehicle
        /\ pconfidence' = d.confidence
        /\ calls' = [calls EXCEPT ![c].pc = "done", ![c].shown = Some(d)]
  /\ UNCHANGED <<file, previewUrl, edgeUrl>>
  /\ UNCHANGED <<pipeVars, VEHICLES, postVars>>

NextPage ==
  \/ \E f \in Files : HandleFile(f)
  \/ \E c \in 1..Len(calls) : ImgLoad(c)
  \/ \E c \in 1..Len(calls) : FetchSettle(c, TRUE)
  \/ \E c \in 1..Len(calls) : FetchSettle(c, FALSE)

SpecPage == InitPage /\ [][NextPage]_vars

\* no handleFile invocation is waiting for its image or for its fetch
Quiescent == Len(calls) > 0 /\ \A c \in 1..Len(calls) : calls[c].pc = "done"

\* C10: once no request is in flight, the vehicle and confidence on display
\* are the outcome of the request for the file selected last, the one shown
\* as preview.
C10_LatestFileWins ==
  Quiescent =>
    /\ previewUrl = calls[Len(calls)].f
    /\ Some([vehicle |-> vehicle, confidence |-> pconfidence]) = calls[Len(calls)].shown

====
